---- MODULE Spec2Model ----
(***************************************************************************)
(* Model of migration/run/migrate_runs.go: the startup fan-out of main,    *)
(* getRuns, getGit, and getCommitForRuns with its commit index (byHash,    *)
(* sort.Sort), the suffix search findHash and the per-record goroutines.   *)
(***************************************************************************)
EXTENDS Integers, Sequences, FiniteSets, TLC

\* ---------------------------------------------------------------- bounds
MaxCommits == 3        \* most commits the remote repository holds
MaxRuns == 2           \* most TestRun records the datastore holds

\* ------------------------------------------------------ program constants
HashLen == 20          \* plumbing.Hash is [20]byte
SuffixLen == 5         \* the 5 of Hash[len-5:] and of len(runHash) != 5

\* --------------------------------------------------------------- inputs
\* A 20-byte hash whose first byte is p and whose last byte is s.
MkHash(p, s) ==
  [k \in 1..HashLen |-> IF k = 1 THEN p ELSE IF k = HashLen THEN s ELSE 0]

\* Byte values on both sides of 128, so signed and unsigned orders differ.
PoolBytes == {1, 200}

\* Four hashes, in hash order 01..01 < 01..64 < 01..c8 < c8..01: the first
\* three have ascending suffixes, the last two have suffixes in reverse
\* order, the first and the last share their suffix.
HashPool ==
  ({MkHash(p, s) : p \in PoolBytes, s \in PoolBytes} \ {MkHash(200, 200)})
    \cup {MkHash(1, 100)}

\* Revision strings, one character per element.
RevZeros == <<"0", "0", "0", "0", "0", "0", "0", "0">>
Rev01 == RevZeros \o <<"0", "1">>        \* suffix 00 00 00 00 01
RevC8 == RevZeros \o <<"C", "8">>        \* suffix 00 00 00 00 c8 (200)
Rev64 == RevZeros \o <<"6", "4">>        \* suffix 00 00 00 00 64 (100)
RevShort == <<"0", "0", "0", "1">>       \* decodes to 2 bytes
RevBadChar == RevZeros \o <<"0", "g">>   \* not hexadecimal

RevisionPool == {RevC8, Rev64, RevShort, RevBadChar}

SeqsUpTo(S, n) == UNION {[1..k -> S] : k \in 0..n}

\* The nil *object.Commit.
Nil == [Hash |-> <<>>]

\* ------------------------------------------------------- pure functions
\* bytes.Compare: unsigned byte-wise lexicographic, -1 / 0 / 1.
RECURSIVE Compare(_, _)
Compare(a, b) ==
  IF Len(a) = 0 /\ Len(b) = 0 THEN 0
  ELSE IF Len(a) = 0 THEN -1
  ELSE IF Len(b) = 0 THEN 1
  ELSE IF a[1] < b[1] THEN -1
  ELSE IF a[1] > b[1] THEN 1
  ELSE Compare(Tail(a), Tail(b))

\* byHash.Len
byHashLen(c) == Len(c)

\* byHash.Swap
byHashSwap(c, i, j) == [c EXCEPT ![i + 1] = c[j + 1], ![j + 1] = c[i + 1]]

\* A comparison on the wrong key: the trailing bytes only.
byHashLessSuffix(c, i, j) ==
  LET hi == SubSeq(c[i + 1].Hash, HashLen - SuffixLen + 1, HashLen)
      hj == SubSeq(c[j + 1].Hash, HashLen - SuffixLen + 1, HashLen)
  IN Compare(hi, hj) = -1

\* byHash.Less
byHashLess(c, i, j) ==
  LET hi == SubSeq(c[i + 1].Hash, 1, Len(c[i + 1].Hash))
      hj == SubSeq(c[j + 1].Hash, 1, Len(c[j + 1].Hash))
  IN Compare(hi, hj) = -1

\* sort.Sort on a short slice: insertion sort through Len, Less and Swap.
RECURSIVE SinkDown(_, _)
SinkDown(c, j) ==
  IF j > 0 /\ byHashLess(c, j, j - 1)
  THEN SinkDown(byHashSwap(c, j, j - 1), j - 1)
  ELSE c

RECURSIVE InsertionSort(_, _)
InsertionSort(c, i) ==
  IF i < byHashLen(c) THEN InsertionSort(SinkDown(c, i), i + 1) ELSE c

sortSort(c) == InsertionSort(c, 1)

\* A search that leaves out the empty-range test and answers mid.
RECURSIVE findHashNoEmpty(_, _)
findHashNoEmpty(commits, shortHash) ==
  LET mid == Len(commits) \div 2 IN
  IF Len(commits) = 0 THEN mid
  ELSE LET commitHash == SubSeq(commits[mid + 1].Hash,
                                Len(commits[mid + 1].Hash) - 5 + 1,
                                Len(commits[mid + 1].Hash))
           cmp == Compare(commitHash, shortHash)
       IN CASE cmp = 1 -> findHashNoEmpty(SubSeq(commits, 1, mid), shortHash)
            [] cmp = -1 ->
                 findHashNoEmpty(SubSeq(commits, mid + 2, Len(commits)),
                                 shortHash) + mid + 1
            [] OTHER -> mid

\* A search whose right-half result is shifted by mid only.
RECURSIVE findHashOffsetMid(_, _)
findHashOffsetMid(commits, shortHash) ==
  LET mid == Len(commits) \div 2 IN
  IF Len(commits) = 0 THEN -1
  ELSE LET commitHash == SubSeq(commits[mid + 1].Hash,
                                Len(commits[mid + 1].Hash) - 5 + 1,
                                Len(commits[mid + 1].Hash))
           cmp == Compare(commitHash, shortHash)
       IN CASE cmp = 1 -> findHashOffsetMid(SubSeq(commits, 1, mid), shortHash)
            [] cmp = -1 ->
                 findHashOffsetMid(SubSeq(commits, mid + 2, Len(commits)), shortHash)
                   + mid
            [] OTHER -> mid

\* A search whose right-half result is shifted by mid + 2.
RECURSIVE findHashOffsetTwo(_, _)
findHashOffsetTwo(commits, shortHash) ==
  LET mid == Len(commits) \div 2 IN
  IF Len(commits) = 0 THEN -1
  ELSE LET commitHash == SubSeq(commits[mid + 1].Hash,
                                Len(commits[mid + 1].Hash) - 5 + 1,
                                Len(commits[mid + 1].Hash))
           cmp == Compare(commitHash, shortHash)
       IN CASE cmp = 1 -> findHashOffsetTwo(SubSeq(commits, 1, mid), shortHash)
            [] cmp = -1 ->
                 findHashOffsetTwo(SubSeq(commits, mid + 2, Len(commits)), shortHash)
                   + mid + 2
            [] OTHER -> mid

\* findHash: binary search on the trailing 5 bytes; positions are 0-based.
RECURSIVE findHash(_, _)
findHash(commits, shortHash) ==
  LET mid == Len(commits) \div 2 IN
  IF Len(commits) = 0 THEN -1
  ELSE LET commitHash == SubSeq(commits[mid + 1].Hash,
                                Len(commits[mid + 1].Hash) - 5 + 1,
                                Len(commits[mid + 1].Hash))
           cmp == Compare(commitHash, shortHash)
       IN CASE cmp = 1 -> findHash(SubSeq(commits, 1, mid), shortHash)
            [] cmp = -1 ->
                 findHash(SubSeq(commits, mid + 2, Len(commits)), shortHash)
                   + mid + 1
            [] OTHER -> mid

\* The calls of a search that keeps commits[mid] in its right half.
RECURSIVE findHashCallsKeepMid(_, _, _)
findHashCallsKeepMid(commits, shortHash, fuel) ==
  LET mid == Len(commits) \div 2 IN
  IF fuel = 0 THEN <<>>
  ELSE IF Len(commits) = 0 THEN <<0>>
  ELSE LET commitHash == SubSeq(commits[mid + 1].Hash,
                                Len(commits[mid + 1].Hash) - 5 + 1,
                                Len(commits[mid + 1].Hash))
           cmp == Compare(commitHash, shortHash)
       IN CASE cmp = 1 ->
                 <<Len(commits)>>
                   \o findHashCallsKeepMid(SubSeq(commits, 1, mid), shortHash, fuel - 1)
            [] cmp = -1 ->
                 <<Len(commits)>>
                   \o findHashCallsKeepMid(SubSeq(commits, mid + 1, Len(commits)),
                              shortHash, fuel - 1)
            [] OTHER -> <<Len(commits)>>

\* The calls findHash makes: len(commits) of each successive call, the first
\* included, cut off after fuel calls.
RECURSIVE findHashCalls(_, _, _)
findHashCalls(commits, shortHash, fuel) ==
  LET mid == Len(commits) \div 2 IN
  IF fuel = 0 THEN <<>>
  ELSE IF Len(commits) = 0 THEN <<0>>
  ELSE LET commitHash == SubSeq(commits[mid + 1].Hash,
                                Len(commits[mid + 1].Hash) - 5 + 1,
                                Len(commits[mid + 1].Hash))
           cmp == Compare(commitHash, shortHash)
       IN CASE cmp = 1 ->
                 <<Len(commits)>>
                   \o findHashCalls(SubSeq(commits, 1, mid), shortHash, fuel - 1)
            [] cmp = -1 ->
                 <<Len(commits)>>
                   \o findHashCalls(SubSeq(commits, mid + 2, Len(commits)),
                              shortHash, fuel - 1)
            [] OTHER -> <<Len(commits)>>

\* encoding/hex fromHexChar: the digit's value, or -1 for a non-hex character.
HexLower == <<"0", "1", "2", "3", "4", "5", "6", "7", "8", "9",
              "a", "b", "c", "d", "e", "f">>
HexUpper == <<"0", "1", "2", "3", "4", "5", "6", "7", "8", "9",
              "A", "B", "C", "D", "E", "F">>

fromHexChar(ch) ==
  IF \E k \in 1..16 : HexLower[k] = ch
  THEN (CHOOSE k \in 1..16 : HexLower[k] = ch) - 1
  ELSE IF \E k \in 1..16 : HexUpper[k] = ch
  THEN (CHOOSE k \in 1..16 : HexUpper[k] = ch) - 1
  ELSE -1

\* hex.DecodeString: the decoded bytes, and whether decoding failed (an odd
\* length or a character that is not a hexadecimal digit).
hexDecodeString(s) ==
  LET n == Len(s) \div 2
      bad == \E k \in 1..Len(s) : fromHexChar(s[k]) = -1
  IN [err |-> bad \/ Len(s) % 2 = 1,
      bytes |-> IF bad THEN <<>>
                ELSE [k \in 1..n |->
                        16 * fromHexChar(s[2 * k - 1]) + fromHexChar(s[2 * k])]]

\* ================================================================ state
VARIABLES
  remote,         \* commits (hashes) of the remote repository
  mirrorExists,   \* whether a mirror is present at the local path
  mirrorCommits,  \* commits the on-disk mirror holds
  storeRuns,      \* Revision strings of the TestRun records in the datastore
  exit,           \* "running", "fatal" (log.Fatal), "panic", "done"
  pcMain,         \* position of main / getCommitForRuns
  wgMain,         \* main's WaitGroup counter
  pcRuns,         \* position of the getRuns goroutine
  testRuns,       \* getRuns' local slice
  runs,           \* main's runs variable
  pcGit,          \* position of the getGit goroutine
  repo,           \* main's repo variable: "nil" or "repo"
  cloned,         \* git.Clone was run and succeeded
  gitErr,         \* getGit's err: "nil", "ErrRepositoryNotExists",
                  \* "NoErrAlreadyUpToDate" or "other"
  iterRest,       \* commits the CommitObjects iterator has yet to yield
  iterErr,        \* getCommitForRuns' err after the loop: "nil", "EOF", "other"
  commits,        \* getCommitForRuns' commits slice
  found,          \* getCommitForRuns' found slice
  wg,             \* getCommitForRuns' WaitGroup counter
  spawned,        \* number of goroutines the range loop has started
  pcTask,         \* position of each per-record goroutine
  runHash,        \* each goroutine's decoded revision
  idx             \* each goroutine's findHash result

vars == <<remote, mirrorExists, mirrorCommits, storeRuns, exit, pcMain, wgMain,
          pcRuns, testRuns, runs, pcGit, repo, cloned, gitErr, iterRest,
          iterErr, commits, found, wg, spawned, pcTask, runHash, idx>>

diskVars == <<remote, mirrorExists, mirrorCommits, storeRuns>>
startVars == <<wgMain, pcRuns, testRuns, runs, pcGit, repo, cloned, gitErr>>
indexVars == <<iterRest, iterErr, commits>>
matchVars == <<found, wg, spawned, pcTask, runHash, idx>>

Init ==
  /\ remote \in {S \in SUBSET HashPool : Cardinality(S) <= MaxCommits}
  /\ mirrorExists \in BOOLEAN
  /\ mirrorCommits \in (IF mirrorExists THEN {remote, {}} ELSE {{}})
  /\ storeRuns \in SeqsUpTo(RevisionPool, MaxRuns)
  /\ exit = "running"
  /\ pcMain = "join"
  /\ wgMain = 2
  /\ pcRuns = "next"
  /\ testRuns = <<>>
  /\ runs = <<>>
  /\ pcGit = "storage"
  /\ repo = "nil"
  /\ cloned = FALSE
  /\ gitErr = "nil"
  /\ iterRest = {}
  /\ iterErr = "nil"
  /\ commits = <<>>
  /\ found = <<>>
  /\ wg = 0
  /\ spawned = 0
  /\ pcTask = <<>>
  /\ runHash = <<>>
  /\ idx = <<>>

\* log.Fatal: os.Exit(1), no deferred call runs, every goroutine stops.
Fatal == exit' = "fatal"

Running == exit = "running"

\* ============================================================== getRuns
\* it.Next yields the next record: testRuns = append(testRuns, testRun).
GetRunsNext ==
  /\ Running /\ pcRuns = "next"
  /\ Len(testRuns) < Len(storeRuns)
  /\ testRuns' = Append(testRuns, storeRuns[Len(testRuns) + 1])
  /\ UNCHANGED <<diskVars, exit, pcMain, wgMain, pcRuns, runs, pcGit, repo,
                 cloned, gitErr, indexVars, matchVars>>

\* it.Next fails with an error other than iterator.Done: log.Fatal.
GetRunsErr ==
  /\ Running /\ pcRuns = "next"
  /\ Fatal
  /\ UNCHANGED <<diskVars, pcMain, startVars, indexVars, matchVars>>

\* iterator.Done: getRuns returns, runs is assigned, deferred wg.Done runs.
GetRunsDone ==
  /\ Running /\ pcRuns = "next"
  /\ Len(testRuns) = Len(storeRuns)
  /\ runs' = testRuns
  /\ pcRuns' = "done"
  /\ wgMain' = wgMain - 1
  /\ UNCHANGED <<diskVars, exit, pcMain, testRuns, pcGit, repo, cloned,
                 gitErr, indexVars, matchVars>>

\* ======================================================= mirror goroutine
\* filesystem.NewStorage succeeds.
GitStorage ==
  /\ Running /\ pcGit = "storage"
  /\ pcGit' = "open"
  /\ UNCHANGED <<diskVars, exit, pcMain, wgMain, pcRuns, testRuns, runs, repo,
                 cloned, gitErr, indexVars, matchVars>>

\* filesystem.NewStorage, git.Open (other than "not exists"), git.Clone or
\* repo.Worktree fails: log.Fatal.
GitErr ==
  /\ Running /\ pcGit \in {"storage", "open", "clone", "worktree"}
  /\ gitErr' = "other"
  /\ Fatal
  /\ UNCHANGED <<diskVars, pcMain, wgMain, pcRuns, testRuns, runs, pcGit, repo,
                 cloned, indexVars, matchVars>>

\* git.Open: ErrRepositoryNotExists when there is no mirror, else the repo.
GitOpen ==
  /\ Running /\ pcGit = "open"
  /\ pcGit' = IF mirrorExists THEN "worktree" ELSE "clone"
  /\ gitErr' = IF mirrorExists THEN "nil" ELSE "ErrRepositoryNotExists"
  /\ UNCHANGED <<diskVars, exit, pcMain, wgMain, pcRuns, testRuns, runs, repo,
                 cloned, indexVars, matchVars>>

\* What getGit returns after a successful clone.
getGitCloneResult == "nil"

\* git.Clone succeeds and writes the mirror; getGit returns, main's
\* goroutine assigns repo and the deferred wg.Done runs.
GitClone ==
  /\ Running /\ pcGit = "clone"
  /\ mirrorExists' = TRUE
  /\ mirrorCommits' = remote
  /\ cloned' = TRUE
  /\ gitErr' = "nil"
  /\ repo' = getGitCloneResult
  /\ pcGit' = "done"
  /\ wgMain' = wgMain - 1
  /\ UNCHANGED <<remote, storeRuns, exit, pcMain, pcRuns, testRuns, runs,
                 indexVars, matchVars>>

\* repo.Worktree succeeds.
GitWorktree ==
  /\ Running /\ pcGit = "worktree"
  /\ pcGit' = "pull"
  /\ UNCHANGED <<diskVars, exit, pcMain, wgMain, pcRuns, testRuns, runs, repo,
                 cloned, gitErr, indexVars, matchVars>>

\* What wt.Pull returns when the transport works: NoErrAlreadyUpToDate
\* when the mirror holds the remote's history, nil after a fast-forward.
PullResult ==
  IF mirrorCommits = remote THEN "NoErrAlreadyUpToDate" ELSE "nil"

\* A test that takes every non-nil result of wt.Pull for a failure.
pullFatalAnyErr(err) == err # "nil"

\* err != git.NoErrAlreadyUpToDate && err != nil
pullFatal(err) == err # "NoErrAlreadyUpToDate" /\ err # "nil"

\* wt.Pull returns nil or NoErrAlreadyUpToDate; getGit returns the opened
\* repository, main's goroutine assigns repo and the deferred wg.Done runs.
GitPull ==
  /\ Running /\ pcGit = "pull"
  /\ ~pullFatal(PullResult)
  /\ gitErr' = PullResult
  /\ mirrorCommits' = remote
  /\ repo' = "repo"
  /\ pcGit' = "done"
  /\ wgMain' = wgMain - 1
  /\ UNCHANGED <<remote, mirrorExists, storeRuns, exit, pcMain, pcRuns,
                 testRuns, runs, cloned, indexVars, matchVars>>

\* wt.Pull returns an error the test of line 99 does not let through.
GitPullFatal ==
  /\ Running /\ pcGit = "pull"
  /\ \E err \in {PullResult, "other"} :
       /\ pullFatal(err)
       /\ gitErr' = err
  /\ Fatal
  /\ UNCHANGED <<diskVars, pcMain, wgMain, pcRuns, testRuns, runs, pcGit, repo,
                 cloned, indexVars, matchVars>>

\* ================================================================= main
\* A main that goes on without waiting for its two goroutines.
MainJoinNoWait ==
  /\ Running /\ pcMain = "join"
  /\ pcMain' = "commitObjects"
  /\ UNCHANGED <<diskVars, exit, startVars, indexVars, matchVars>>

\* wg.Wait of main returns once both startup goroutines are done.
MainJoin ==
  /\ Running /\ pcMain = "join"
  /\ wgMain = 0
  /\ pcMain' = "commitObjects"
  /\ UNCHANGED <<diskVars, exit, startVars, indexVars, matchVars>>

\* ===================================================== getCommitForRuns
\* repo.CommitObjects on a nil *git.Repository: nil pointer dereference.
CommitObjectsNil ==
  /\ Running /\ pcMain = "commitObjects"
  /\ repo = "nil"
  /\ exit' = "panic"
  /\ UNCHANGED <<diskVars, pcMain, startVars, indexVars, matchVars>>

\* repo.CommitObjects returns an iterator over every commit of the mirror.
CommitObjects ==
  /\ Running /\ pcMain = "commitObjects"
  /\ repo # "nil"
  /\ iterRest' = mirrorCommits
  /\ commits' = <<>>
  /\ pcMain' = "iterate"
  /\ UNCHANGED <<diskVars, exit, startVars, iterErr, matchVars>>

\* repo.CommitObjects fails: log.Fatal.
CommitObjectsErr ==
  /\ Running /\ pcMain = "commitObjects"
  /\ repo # "nil"
  /\ Fatal
  /\ UNCHANGED <<diskVars, pcMain, startVars, indexVars, matchVars>>

\* iter.Next yields a commit, in storage order: commits = append(commits, c).
IterNext ==
  /\ Running /\ pcMain = "iterate"
  /\ \E h \in iterRest :
       /\ commits' = Append(commits, [Hash |-> h])
       /\ iterRest' = iterRest \ {h}
  /\ UNCHANGED <<diskVars, exit, pcMain, startVars, iterErr, matchVars>>

\* The test after the loop that lets every error through.
iterFatalNever(err) == FALSE

\* err != io.EOF
iterFatal(err) == err # "EOF"

\* A loop that ends, with io.EOF, before the iterator is exhausted.
IterEOFEarly ==
  /\ Running /\ pcMain = "iterate"
  /\ iterErr' = "EOF"
  /\ pcMain' = "sort"
  /\ UNCHANGED <<diskVars, exit, startVars, iterRest, commits, matchVars>>

\* iter.Next returns (nil, io.EOF): the loop ends and err == io.EOF.
IterEOF ==
  /\ Running /\ pcMain = "iterate"
  /\ iterRest = {}
  /\ ~iterFatal("EOF")
  /\ iterErr' = "EOF"
  /\ pcMain' = "sort"
  /\ UNCHANGED <<diskVars, exit, startVars, iterRest, commits, matchVars>>

\* iter.Next returns (nil, err) with err != io.EOF: the loop ends, log.Fatal.
IterErr ==
  /\ Running /\ pcMain = "iterate"
  /\ iterErr' = "other"
  /\ IF iterFatal("other")
     THEN Fatal /\ UNCHANGED pcMain
     ELSE pcMain' = "sort" /\ UNCHANGED exit
  /\ UNCHANGED <<diskVars, startVars, iterRest, commits, matchVars>>

\* A WaitGroup armed for one goroutine more than the loop starts.
wgAddOneMore(counter, delta) == counter + delta + 1

\* wg.Add(delta)
wgAdd(counter, delta) == counter + delta

\* sort.Sort(byHash(commits)); found = make(.., len(runs)); wg.Add(len(runs)).
SortCommits ==
  /\ Running /\ pcMain = "sort"
  /\ commits' = sortSort(commits)
  /\ found' = [k \in 1..Len(runs) |-> Nil]
  /\ wg' = wgAdd(0, Len(runs))
  /\ spawned' = 0
  /\ pcTask' = [k \in 1..Len(runs) |-> "unborn"]
  /\ runHash' = [k \in 1..Len(runs) |-> <<>>]
  /\ idx' = [k \in 1..Len(runs) |-> -1]
  /\ pcMain' = "spawn"
  /\ UNCHANGED <<diskVars, exit, startVars, iterRest, iterErr>>

\* One turn of the range loop: go func(i, run).
Spawn ==
  /\ Running /\ pcMain = "spawn"
  /\ spawned < Len(runs)
  /\ spawned' = spawned + 1
  /\ pcTask' = [pcTask EXCEPT ![spawned + 1] = "decode"]
  /\ UNCHANGED <<diskVars, exit, pcMain, startVars, indexVars, found, wg,
                 runHash, idx>>

\* The range loop is over.
SpawnEnd ==
  /\ Running /\ pcMain = "spawn"
  /\ spawned = Len(runs)
  /\ pcMain' = "wait"
  /\ UNCHANGED <<diskVars, exit, startVars, indexVars, matchVars>>

\* wg.Wait lets the caller through when the counter is zero.
WaitOpenAlways(n) == TRUE

WaitOpen(n) == n = 0

\* wg.Wait returns; getCommitForRuns returns found.
WaitReturn ==
  /\ Running /\ pcMain = "wait"
  /\ WaitOpen(wg)
  /\ pcMain' = "returned"
  /\ UNCHANGED <<diskVars, exit, startVars, indexVars, matchVars>>

\* main returns: the process ends.
MainExit ==
  /\ Running /\ pcMain = "returned"
  /\ exit' = "done"
  /\ UNCHANGED <<diskVars, pcMain, startVars, indexVars, matchVars>>

\* ============================================== per-record goroutine i
\* The length test on the decoded revision.
badLengthNever(b) == FALSE

badLength(b) == Len(b) # 5

\* hex.DecodeString(run.Revision) fails, or the length is not 5: log.Fatal.
TaskDecodeFatal(i) ==
  /\ Running /\ pcTask[i] = "decode"
  /\ LET d == hexDecodeString(runs[i]) IN d.err \/ badLength(d.bytes)
  /\ Fatal
  /\ UNCHANGED <<diskVars, pcMain, startVars, indexVars, matchVars>>

\* hex.DecodeString succeeds with 5 bytes.
TaskDecode(i) ==
  /\ Running /\ pcTask[i] = "decode"
  /\ LET d == hexDecodeString(runs[i]) IN
       /\ ~d.err /\ ~badLength(d.bytes)
       /\ runHash' = [runHash EXCEPT ![i] = d.bytes]
  /\ pcTask' = [pcTask EXCEPT ![i] = "find"]
  /\ UNCHANGED <<diskVars, exit, pcMain, startVars, indexVars, found, wg,
                 spawned, idx>>

\* idx := findHash(commits, runHash)
TaskFind(i) ==
  /\ Running /\ pcTask[i] = "find"
  /\ idx' = [idx EXCEPT ![i] = findHash(commits, runHash[i])]
  /\ pcTask' = [pcTask EXCEPT ![i] = "check"]
  /\ UNCHANGED <<diskVars, exit, pcMain, startVars, indexVars, found, wg,
                 spawned, runHash>>

\* idx == -1: log the miss, return; the deferred wg.Done runs.
TaskMiss(i) ==
  /\ Running /\ pcTask[i] = "check"
  /\ idx[i] = -1
  /\ pcTask' = [pcTask EXCEPT ![i] = "done"]
  /\ wg' = wg - 1
  /\ UNCHANGED <<diskVars, exit, pcMain, startVars, indexVars, found, spawned,
                 runHash, idx>>

\* Results gathered in completion order: c goes to the first free slot.
storeFoundNextFree(f, i, c) ==
  IF \E k \in 1..Len(f) : f[k] = Nil
  THEN [f EXCEPT ![CHOOSE k \in 1..Len(f) :
                     f[k] = Nil /\ \A j \in 1..(k - 1) : f[j] # Nil] = c]
  ELSE f

\* Every goroutine sees the loop variable's last value: all write one slot.
storeFoundLastSlot(f, i, c) == [f EXCEPT ![Len(f)] = c]

\* found[i] = c, for the i-th record (i counts from 1 here).
storeFound(f, i, c) == [f EXCEPT ![i] = c]

\* found[i] = commits[idx]; return; the deferred wg.Done runs.
TaskStore(i) ==
  /\ Running /\ pcTask[i] = "check"
  /\ idx[i] # -1
  /\ found' = storeFound(found, i, commits[idx[i] + 1])
  /\ pcTask' = [pcTask EXCEPT ![i] = "done"]
  /\ wg' = wg - 1
  /\ UNCHANGED <<diskVars, exit, pcMain, startVars, indexVars, spawned,
                 runHash, idx>>

Task(i) ==
  /\ i \in DOMAIN pcTask
  /\ \/ TaskDecodeFatal(i)
     \/ TaskDecode(i)
     \/ TaskFind(i)
     \/ TaskMiss(i)
     \/ TaskStore(i)

Tasks == \E i \in 1..MaxRuns : Task(i)

RunsStep == GetRunsNext \/ GetRunsErr \/ GetRunsDone

GitStep ==
  \/ GitStorage
  \/ GitErr
  \/ GitOpen
  \/ GitClone
  \/ GitWorktree
  \/ GitPull
  \/ GitPullFatal

MainStep ==
  \/ MainJoin
  \/ CommitObjectsNil
  \/ CommitObjects
  \/ CommitObjectsErr
  \/ IterNext
  \/ IterEOF
  \/ IterErr
  \/ SortCommits
  \/ Spawn
  \/ SpawnEnd
  \/ WaitReturn
  \/ MainExit

Next == RunsStep \/ GitStep \/ MainStep \/ Tasks

Spec == Init /\ [][Next]_vars

\* Inputs of the progress check: a two-commit pool whose suffix order is the
\* reverse of its hash order, and a hit, a miss and a malformed revision.
FairInit ==
  /\ Init
  /\ remote \subseteq {MkHash(1, 200), MkHash(200, 1)}
  /\ \A k \in 1..Len(storeRuns) : storeRuns[k] \in {RevC8, Rev64, RevShort}

\* The Go scheduler keeps running while some goroutine is runnable.
FairSpec == FairInit /\ [][Next]_vars /\ WF_vars(Next)

\* =========================================================== properties
\* The trailing 5 bytes of a commit's hash.
Suffix(c) == SubSeq(c.Hash, HashLen - SuffixLen + 1, HashLen)

\* Unsigned byte-wise lexicographic a <= b, for hashes of one length.
LexLeq(a, b) ==
  \/ a = b
  \/ \E k \in 1..Len(a) : a[k] < b[k] /\ \A j \in 1..(k - 1) : a[j] = b[j]

\* Sorting is over: the index is the one the goroutines search.
IndexBuilt == pcMain \in {"spawn", "wait", "returned"}

\* Goroutine i has its findHash result.
Searched(i) == i \in DOMAIN pcTask /\ pcTask[i] \in {"check", "done"}

\* The query of goroutine i is the suffix of some commit of the index.
InIndex(i) == \E k \in 1..Len(commits) : Suffix(commits[k]) = runHash[i]

\* No two commits of the index share their trailing 5 bytes.
NoCollision ==
  \A k, l \in 1..Len(commits) :
    Suffix(commits[k]) = Suffix(commits[l]) => k = l

\* A revision the goroutine rejects: not hexadecimal, or not 5 bytes.
Malformed(rev) ==
  hexDecodeString(rev).err \/ Len(hexDecodeString(rev).bytes) # SuffixLen

\* What record i resolves to: the commit at findHash's position, or nil.
Outcome(i) ==
  LET r == findHash(commits, hexDecodeString(runs[i]).bytes)
  IN IF r = -1 THEN Nil ELSE commits[r + 1]

\* C1: once the index is built, a lookup of the exact trailing 5 bytes of a
\* commit of the index returns a position holding that suffix, never -1.
C1_ExistingSuffixFound ==
  \A i \in 1..MaxRuns :
    (Searched(i) /\ InIndex(i)) =>
      (idx[i] # -1 /\ Suffix(commits[idx[i] + 1]) = runHash[i])

\* C2: a lookup of a 5-byte suffix that no commit of the index ends with
\* returns -1, also when the search went into an empty right half.
C2_AbsentSuffixNotFound ==
  \A i \in 1..MaxRuns : (Searched(i) /\ ~InIndex(i)) => idx[i] = -1

\* C3: in an index without suffix collisions, a lookup of a commit's own
\* suffix returns that commit's position or -1, never another commit's.
C3_NeverAnotherCommit ==
  \A i \in 1..MaxRuns :
    (Searched(i) /\ InIndex(i) /\ NoCollision) =>
      (idx[i] = -1 \/ Suffix(commits[idx[i] + 1]) = runHash[i])

\* C4: a well-formed revision matching no commit is a recoverable miss: the
\* goroutine finishes and its slot found[i] stays nil.
C4_MissLeavesSlotNil ==
  \A i \in 1..MaxRuns :
    (i \in DOMAIN pcTask /\ pcTask[i] = "done" /\ ~InIndex(i)) =>
      found[i] = Nil

\* C5: after a full clone the run goes on to build the index from the
\* cloned repository: main's repo is the clone and the run does not crash.
C5_CloneThenIndex ==
  (cloned /\ pcMain # "join") => (repo # "nil" /\ exit # "panic")

\* C6: if any record's revision fails to decode or is not 5 bytes long,
\* getCommitForRuns never returns, whatever the other records and schedule.
C6_MalformedNeverReturns ==
  (\E i \in 1..Len(storeRuns) : Malformed(storeRuns[i])) =>
    pcMain # "returned"

C6_Witness ==
  /\ exit = "fatal" /\ pcMain = "wait"
  /\ \E i, j \in DOMAIN pcTask :
       /\ pcTask[i] = "decode" /\ Malformed(runs[i])
       /\ pcTask[j] = "done"

\* C7: the returned slice has one slot per record and slot i holds the
\* outcome of record i, whatever order the goroutines finished in.
C7_OrderPreserved ==
  pcMain = "returned" =>
    /\ Len(found) = Len(runs)
    /\ \A i \in 1..Len(runs) : found[i] = Outcome(i)

C7_Witness ==
  /\ pcMain = "returned" /\ Len(runs) >= 2
  /\ found[1] = Nil /\ found[2] # Nil

\* C8: getCommitForRuns returns only after every goroutine has finished,
\* and with well-formed records and fair scheduling it does return.
C8_ReturnsAfterAllTasks ==
  /\ [](pcMain = "returned" => \A i \in DOMAIN pcTask : pcTask[i] = "done")
  /\ (pcMain = "spawn" /\ \A i \in 1..Len(runs) : ~Malformed(runs[i]))
       ~> (pcMain = "returned")

C8_Witness ==
  /\ pcMain = "returned" /\ Len(runs) >= 2
  /\ \A i \in DOMAIN pcTask : pcTask[i] = "done"
  /\ found[1] # Nil

\* C9: findHash on an empty index returns -1 for every query.
C9_EmptyIndexNotFound ==
  \A i \in 1..MaxRuns : (Searched(i) /\ Len(commits) = 0) => idx[i] = -1

C9_Witness ==
  /\ IndexBuilt /\ Len(commits) = 0
  /\ \E i \in DOMAIN pcTask : pcTask[i] = "done" /\ Len(runHash[i]) = SuffixLen

\* C10: from the end of sorting to the end of the run every adjacent pair
\* of the index is in ascending unsigned byte-wise order of the full hash.
C10_SortedIndex ==
  IndexBuilt =>
    \A k \in 1..(Len(commits) - 1) :
      LexLeq(commits[k].Hash, commits[k + 1].Hash)

C10_Witness == exit = "done" /\ Len(commits) >= 3

\* Some per-record goroutine has been started.
TaskStarted == \E i \in DOMAIN pcTask : pcTask[i] # "unborn"

\* The index holds every commit of the mirror, once each, in hash order.
IndexComplete ==
  /\ IndexBuilt /\ iterErr = "EOF" /\ iterRest = {}
  /\ {commits[k].Hash : k \in 1..Len(commits)} = mirrorCommits
  /\ Len(commits) = Cardinality(mirrorCommits)
  /\ \A k \in 1..(Len(commits) - 1) :
       LexLeq(commits[k].Hash, commits[k + 1].Hash)

\* The trailing 5 bytes ascend strictly along the index.
SuffixAscending ==
  \A k \in 1..(Len(commits) - 1) :
    /\ LexLeq(Suffix(commits[k]), Suffix(commits[k + 1]))
    /\ Suffix(commits[k]) # Suffix(commits[k + 1])

\* C11: with a mirror present getGit opens and pulls; "already up to date"
\* is success and the opened repository is returned; any other open,
\* worktree or pull error ends the run.
C11_PullUpToDateIsSuccess ==
  /\ gitErr = "NoErrAlreadyUpToDate" => (pcGit = "done" /\ repo = "repo")
  /\ gitErr = "other" => (exit = "fatal" /\ pcGit # "done" /\ repo = "nil")
  /\ (pcGit = "done" /\ ~cloned) =>
       /\ repo = "repo"
       /\ gitErr \in {"nil", "NoErrAlreadyUpToDate"}
       /\ mirrorCommits = remote

C11_Witness ==
  gitErr = "NoErrAlreadyUpToDate" /\ pcGit = "done" /\ pcMain = "sort"

\* C12: with zero records resolution starts no goroutine, wg.Wait does not
\* block and the mapping returned is empty, without error.
C12_NoRecordsEmptyMapping ==
  (Len(storeRuns) = 0 /\ IndexBuilt) =>
    /\ spawned = 0 /\ Len(pcTask) = 0
    /\ Len(found) = 0
    /\ wg = 0
    /\ exit \in {"running", "done"}

C12_Witness ==
  Len(storeRuns) = 0 /\ pcMain = "returned" /\ Len(commits) >= 1

\* C13: the index is fully enumerated and sorted before any goroutine
\* starts, and no step changes it afterwards, findHash calls included.
C13_IndexBuiltBeforeTasks ==
  /\ [](TaskStarted => IndexComplete)
  /\ [][IndexBuilt => commits' = commits]_vars

C13_Witness ==
  /\ Len(commits) >= 2
  /\ \E i, j \in DOMAIN pcTask : pcTask[i] = "check" /\ pcTask[j] = "done"

\* C14: index building starts only after the record fetch and the mirror
\* goroutine are both done; from then on the mirror, runs and repo keep
\* the values the two goroutines left.
C14_StartupJoin ==
  /\ [](pcMain # "join" =>
         /\ pcRuns = "done" /\ pcGit = "done" /\ wgMain = 0
         /\ runs = storeRuns)
  /\ [][pcMain # "join" =>
         UNCHANGED <<mirrorExists, mirrorCommits, runs, repo>>]_vars

C14_Witness ==
  pcMain = "iterate" /\ Len(runs) >= 1 /\ repo = "repo" /\ gitErr = "nil"

\* C15: slot k of found changes only in a step of goroutine k, the step
\* that ends it, which changes no other slot and no other goroutine; a
\* finished goroutine writes nothing more.
C15_TasksWriteOwnSlotOnce ==
  [][\A k \in DOMAIN found :
       /\ found'[k] # found[k] =>
            /\ pcTask[k] = "check" /\ pcTask'[k] = "done"
            /\ \A j \in DOMAIN found \ {k} :
                 found'[j] = found[j] /\ pcTask'[j] = pcTask[j]
       /\ pcTask[k] = "done" =>
            (pcTask'[k] = "done" /\ found'[k] = found[k])]_vars

C15_Witness ==
  /\ Len(found) >= 2
  /\ found[1] # Nil /\ found[2] # Nil /\ found[1] # found[2]

\* C16: when the suffixes ascend strictly along the index, a lookup of the
\* suffix of a commit of the index returns that commit's position.
C16_AscendingSuffixFound ==
  \A i \in 1..MaxRuns :
    (Searched(i) /\ SuffixAscending /\ InIndex(i)) =>
      (idx[i] # -1 /\ Suffix(commits[idx[i] + 1]) = runHash[i])

C16_Witness ==
  /\ Len(commits) = 3 /\ SuffixAscending
  /\ \E i \in DOMAIN pcTask : Searched(i) /\ InIndex(i) /\ idx[i] = 2

\* C17: an iterator error other than end-of-stream ends the run before
\* sorting and before any goroutine exists.
C17_IterErrorFatal ==
  iterErr = "other" =>
    (exit = "fatal" /\ pcMain = "iterate" /\ Len(pcTask) = 0)

C17_Witness ==
  iterErr = "other" /\ Len(commits) >= 1 /\ iterRest # {}

\* C18: findHash's result lies in -1..len(commits)-1, the right-half
\* offset included, so commits[idx] is in bounds.
C18_ResultInRange ==
  \A i \in 1..MaxRuns :
    Searched(i) => idx[i] \in (-1)..(Len(commits) - 1)

C18_Witness ==
  /\ Len(commits) = 3
  /\ \E i \in DOMAIN pcTask : Searched(i) /\ ~InIndex(i) /\ idx[i] = 2

\* C19: every recursive call of findHash is on a strictly shorter range, so
\* a search makes at most len(commits) + 1 calls.
C19_FindHashTerminates ==
  \A i \in 1..MaxRuns :
    Searched(i) =>
      LET t == findHashCalls(commits, runHash[i], Len(commits) + 2)
      IN /\ Len(t) <= Len(commits) + 1
         /\ \A k \in 1..(Len(t) - 1) : t[k + 1] < t[k]

C19_Witness ==
  \E i \in DOMAIN pcTask :
    /\ Searched(i)
    /\ findHashCalls(commits, runHash[i], Len(commits) + 2) = <<3, 1, 0>>
====
